---- MODULE Spec2Model ----
(***************************************************************************)
(* The trading loop of the two scripts of the repository:                  *)
(*   testnet.py       offset pagination, trait filter, no error handling   *)
(*   troubleshoot.py  cursor pagination, try/except around buy and relist, *)
(*                    catch-all around the loop that exits the process     *)
(* The variable prog says which script runs; it never changes.             *)
(*                                                                         *)
(* Amounts: an amount of wei is an integer.  An amount of ETH (the float   *)
(* the scripts keep in floor_price) is held as the fixed-point number with *)
(* 18 decimals, that is as its count of wei: float(p) / 1e18 followed by   *)
(* Web3.toWei(., 'ether') is exact on every amount of at most 15           *)
(* significant digits, which covers the amounts used here.  Fractions      *)
(* (0.25, 0.2) are held in hundredths.                                     *)
(*                                                                         *)
(* Time: the program only ever observes the difference between now and a   *)
(* stored timestamp, and only compares it with CACHE_EXPIRATION, so a      *)
(* timestamp is held as its age in seconds, saturating at the TTL.  The    *)
(* clock is taken to be monotonic; it advances in the calls of time.sleep, *)
(* and a network call takes no time.                                       *)
(*                                                                         *)
(* The marketplace, the RPC node and the libraries are the environment:    *)
(* a call into them returns one of the answers its caller distinguishes,   *)
(* or raises.                                                              *)
(***************************************************************************)
EXTENDS Integers, Sequences, FiniteSets, TLC

\* ---- bounds of the model ----
MaxPages == 2        \* non-empty pages the marketplace serves in one fetch
MaxPageLen == 1      \* assets on one page
MaxRows == 2         \* rows of a frame handed to one call of a frame function
MaxPrice == 2        \* largest floor price of such a row
MaxBalance == 4      \* largest wallet balance (wei) the RPC reports

\* ---- constants of the program ----
CACHE_EXPIRATION == 600            \* timedelta(minutes=10), in seconds
RATE_LIMIT_DELAY == 1
CYCLE_SLEEP == 60
PROFIT_THRESHOLD == 20             \* 0.2, in hundredths
SPENDING_LIMIT_PERCENTAGE == 25    \* 0.25, in hundredths
PAGE_LIMIT == 50
FIXED_GAS == 200000

NoPrice == 0 - 1     \* None / NaN in the floor_price column
NoCursor == ""       \* an absent (falsy) 'next' token
Cursors == {"a", "b"}
Progs == {"testnet", "troubleshoot"}
Balances == 0 .. MaxBalance
GasEstimates == {21000, FIXED_GAS}

Min(a, b) == IF a <= b THEN a ELSE b

\* The asset records a marketplace can list.
Assets ==
  { [token_id |-> 1, contract_address |-> "0xA", current_price |-> 1,
     traits |-> [Background |-> "Gold"]],
    [token_id |-> 2, contract_address |-> "0xB", current_price |-> NoPrice,
     traits |-> [Background |-> "Gold"]],
    [token_id |-> 3, contract_address |-> "0xC", current_price |-> 2,
     traits |-> [Background |-> "Blue"]] }

RECURSIVE SeqsUpTo(_, _)
SeqsUpTo(S, n) ==
  IF n = 0 THEN {<<>>}
  ELSE LET shorter == SeqsUpTo(S, n - 1)
       IN  shorter \cup {Append(s, x) : s \in {t \in shorter : Len(t) = n - 1}, x \in S}

\* A run is against a marketplace that lists all of these assets but one.
Catalogues == {Assets \ {a} : a \in Assets}

\* The pages a 200 response can carry (the empty page included).
Pages(listed) == SeqsUpTo(listed, MaxPageLen)

\* float(floor_price) / 1e18 if floor_price else None
floor_price_of(current_price) ==
  IF current_price # NoPrice /\ current_price # 0 THEN current_price ELSE NoPrice

\* The dict appended to nft_list for one asset (testnet.py keeps the traits).
testnet_row(asset) ==
  [token_id |-> asset.token_id,
   contract_address |-> asset.contract_address,
   floor_price |-> floor_price_of(asset.current_price),
   traits |-> asset.traits]

troubleshoot_row(asset) ==
  [token_id |-> asset.token_id,
   contract_address |-> asset.contract_address,
   floor_price |-> floor_price_of(asset.current_price)]

\* the rows one page of assets adds to nft_list
testnet_rows(assets) == [i \in 1 .. Len(assets) |-> testnet_row(assets[i])]

troubleshoot_rows(assets) == [i \in 1 .. Len(assets) |-> troubleshoot_row(assets[i])]

RECURSIVE Flatten(_)
Flatten(ss) == IF ss = <<>> THEN <<>> ELSE Head(ss) \o Flatten(Tail(ss))

VARIABLES
  prog,           \* which script runs
  catalogue,      \* the assets the marketplace lists
  pc,             \* position of monitor_and_trade
  CACHE,          \* the global CACHE dict
  elapsed,        \* seconds since current_time = datetime.now() of the running fetch
  params,         \* the query parameters of the page request
  cursor,         \* troubleshoot.py: the cursor local of fetch_trending_nfts
  nft_list,       \* rows accumulated by the running fetch
  trending_nfts,  \* the frame fetch_trending_nfts returned to the loop
  top_nft,        \* the row selected for purchase
  tx_hash,        \* what execute_buy returned
  relist_response,\* what relist_nft returned
  \* ---- history of the running cycle (observation only) ----
  reqs,           \* page requests issued by the running fetch
  pages,          \* the pages the 200 responses of the running fetch carried
  sentLog,        \* the offset / cursor parameter each request carried
  nextLog,        \* the 'next' token each 200 response carried
  fetchEnd,       \* how the fetch of this cycle ended
  sinceMiss,      \* seconds since the start of the last call that went to the network
  buyCalls,       \* calls of execute_buy in this cycle
  relistCalls,    \* calls of relist_nft in this cycle
  balanceRead,    \* the balance execute_buy read in this cycle
  sent,           \* the transaction broadcast in this cycle
  order,          \* the sell order posted in this cycle
  exitAt,         \* the step at which the process ended
  raisedIn,       \* the step of execute_buy that raised in this cycle
  bought,         \* token ids of the purchases broadcast since the start
  call            \* a single call of one of the frame functions: input and result

vars == <<prog, catalogue, pc, CACHE, elapsed, params, cursor, nft_list, trending_nfts,
          top_nft, tx_hash, relist_response, reqs, pages, sentLog, nextLog,
          fetchEnd, sinceMiss, buyCalls, relistCalls, balanceRead, sent, order, exitAt,
          raisedIn, bought, call>>

NoRow == [row |-> [token_id |-> 0, contract_address |-> "", floor_price |-> NoPrice],
          potential_profit |-> NoPrice, profit_margin |-> NoPrice]
NoTx == [token_id |-> 0, value |-> 0, balance |-> 0, gas |-> 0]
NoOrder == [token_id |-> 0, token_address |-> "", start_amount |-> NoPrice]
NoParams == [offset |-> 0, cursor |-> NoCursor, price_max |-> 0]
NoTraits == [k \in {} |-> ""]
NoCall == [fn |-> "none", df |-> <<>>, desired_traits |-> NoTraits,
           out |-> <<>>, raised |-> FALSE]
Never == 0 - 1

\* now - timestamp after d more seconds, for a timestamp of age a
aged(a, d) == Min(a + d, CACHE_EXPIRATION)

CacheValid_Inclusive == CACHE.has /\ CACHE.age <= CACHE_EXPIRATION

\* 'trending_nfts' in CACHE and (current_time - CACHE['last_fetched'] < CACHE_EXPIRATION)
CacheValid == CACHE.has /\ CACHE.age < CACHE_EXPIRATION

Idle ==
  /\ CACHE = [has |-> FALSE, trending_nfts |-> <<>>, age |-> 0]
  /\ elapsed = 0
  /\ params = NoParams
  /\ cursor = NoCursor
  /\ nft_list = <<>>
  /\ trending_nfts = <<>>
  /\ top_nft = NoRow
  /\ tx_hash = ""
  /\ relist_response = ""
  /\ reqs = 0
  /\ pages = <<>>
  /\ sentLog = <<>>
  /\ nextLog = <<>>
  /\ fetchEnd = "none"
  /\ sinceMiss = Never
  /\ buyCalls = 0
  /\ relistCalls = 0
  /\ balanceRead = Never
  /\ sent = NoTx
  /\ order = NoOrder
  /\ exitAt = "none"
  /\ raisedIn = "none"
  /\ bought = {}

Init ==
  /\ prog \in Progs
  /\ catalogue \in Catalogues
  /\ pc = "loop"
  /\ call = NoCall
  /\ Idle

\* An exception that reaches the top of the script: testnet.py catches only
\* KeyboardInterrupt, so the process dies with a traceback; troubleshoot.py
\* catches Exception around the loop, logs, and calls sys.exit(1).
Terminate(step) ==
  /\ pc' = IF prog = "testnet" THEN "crashed" ELSE "exit1"
  /\ exitAt' = step

\* Seconds pass (time.sleep): every stored timestamp grows older.
Pass(d) ==
  /\ elapsed' = aged(elapsed, d)
  /\ sinceMiss' = IF sinceMiss = Never THEN Never ELSE aged(sinceMiss, d)

\* ---------------------------------------------------------------------
\* fetch_trending_nfts: entry, up to the first page request
\* ---------------------------------------------------------------------
FetchEntry(firstParams) ==
  /\ pc = "loop"
  /\ UNCHANGED <<buyCalls, relistCalls, balanceRead, sent, top_nft, tx_hash,
                 relist_response, order>>
  /\ reqs' = 0 /\ pages' = <<>> /\ sentLog' = <<>> /\ nextLog' = <<>>
  /\ nft_list' = <<>>
  /\ IF CacheValid
       THEN \* return CACHE['trending_nfts']
            /\ trending_nfts' = CACHE.trending_nfts
            /\ fetchEnd' = "cache"
            /\ pc' = "select"
            /\ UNCHANGED <<CACHE, elapsed, params, cursor, sinceMiss, exitAt>>
       ELSE \* current_time is now; get_wallet_balance() answers or raises
            /\ elapsed' = 0
            /\ sinceMiss' = 0
            /\ fetchEnd' = "none"
            /\ cursor' = NoCursor
            /\ \/ \E wallet_balance \in Balances :
                    /\ params' = firstParams[wallet_balance]
                    /\ pc' = "fetching"
                    /\ UNCHANGED <<CACHE, trending_nfts, exitAt>>
               \/ /\ Terminate("balance")
                  /\ UNCHANGED <<CACHE, trending_nfts, params>>
  /\ UNCHANGED <<prog, catalogue, call, raisedIn, bought>>

testnet_params ==
  [wallet_balance \in Balances |->
     [offset |-> 0, cursor |-> NoCursor,
      price_max |-> wallet_balance * SPENDING_LIMIT_PERCENTAGE]]

troubleshoot_params ==
  [wallet_balance \in Balances |-> [offset |-> 0, cursor |-> NoCursor, price_max |-> 0]]

testnet_fetch_trending_nfts == prog = "testnet" /\ FetchEntry(testnet_params)

troubleshoot_fetch_trending_nfts == prog = "troubleshoot" /\ FetchEntry(troubleshoot_params)

StoreAndReturn_Discard(nft_data, how) ==
  LET kept == IF how = "status" THEN <<>> ELSE nft_data
  IN  /\ CACHE' = [has |-> TRUE, trending_nfts |-> kept, age |-> elapsed]
      /\ trending_nfts' = kept
      /\ fetchEnd' = how
      /\ pc' = "select"

\* Store data in cache; return nft_data
StoreAndReturn(nft_data, how) ==
  /\ CACHE' = [has |-> TRUE, trending_nfts |-> nft_data, age |-> elapsed]
  /\ trending_nfts' = nft_data
  /\ fetchEnd' = how
  /\ pc' = "select"

\* ---------------------------------------------------------------------
\* testnet.py: one iteration of the while loop of fetch_trending_nfts
\* ---------------------------------------------------------------------
testnet_page ==
  /\ prog = "testnet" /\ pc = "fetching"
  /\ reqs' = reqs + 1
  /\ sentLog' = Append(sentLog, params.offset)
  /\ UNCHANGED <<prog, catalogue, call, raisedIn, bought, cursor, top_nft, tx_hash, relist_response, nextLog,
                 buyCalls, relistCalls, balanceRead, sent, order>>
  /\ \/ \* requests.get or response.json() raises
        /\ Terminate("fetch")
        /\ UNCHANGED <<CACHE, elapsed, params, nft_list, trending_nfts, pages,
                       fetchEnd, sinceMiss>>
     \/ \* status_code # 200
        /\ StoreAndReturn(nft_list, "status")
        /\ UNCHANGED <<elapsed, params, nft_list, pages, sinceMiss, exitAt>>
     \/ \* 200 and no assets
        /\ StoreAndReturn(nft_list, "empty_page")
        /\ pages' = Append(pages, <<>>)
        /\ UNCHANGED <<elapsed, params, nft_list, sinceMiss, exitAt>>
     \/ \* 200 and assets: append, next offset, sleep RATE_LIMIT_DELAY
        /\ reqs < MaxPages
        /\ \E assets \in Pages(catalogue) \ {<<>>} :
             /\ nft_list' = nft_list \o testnet_rows(assets)
             /\ pages' = Append(pages, assets)
        /\ params' = [params EXCEPT !.offset = @ + PAGE_LIMIT]
        /\ Pass(RATE_LIMIT_DELAY)
        /\ CACHE' = [CACHE EXCEPT !.age = aged(@, RATE_LIMIT_DELAY)]
        /\ UNCHANGED <<pc, trending_nfts, fetchEnd, exitAt>>

WithCursor_Once(p, c) ==
  IF c # NoCursor /\ p.cursor = NoCursor THEN [p EXCEPT !.cursor = c] ELSE p

\* if cursor: params['cursor'] = cursor
WithCursor(p, c) == IF c # NoCursor THEN [p EXCEPT !.cursor = c] ELSE p

\* ---------------------------------------------------------------------
\* troubleshoot.py: one iteration of the while loop of fetch_trending_nfts
\* ---------------------------------------------------------------------
troubleshoot_page ==
  /\ prog = "troubleshoot" /\ pc = "fetching"
  /\ reqs' = reqs + 1
  /\ params' = WithCursor(params, cursor)
  /\ sentLog' = Append(sentLog, params'.cursor)
  /\ UNCHANGED <<prog, catalogue, call, raisedIn, bought, top_nft, tx_hash, relist_response, elapsed, sinceMiss,
                 buyCalls, relistCalls, balanceRead, sent, order>>
  /\ \/ \* requests.get or response.json() raises
        /\ Terminate("fetch")
        /\ UNCHANGED <<CACHE, cursor, nft_list, trending_nfts, pages, nextLog, fetchEnd>>
     \/ \* status_code # 200
        /\ StoreAndReturn(nft_list, "status")
        /\ UNCHANGED <<cursor, nft_list, pages, nextLog, exitAt>>
     \/ \* 200 and no assets
        /\ StoreAndReturn(nft_list, "empty_page")
        /\ pages' = Append(pages, <<>>)
        /\ UNCHANGED <<cursor, nft_list, nextLog, exitAt>>
     \/ \* 200 and assets: append, then follow data.get('next')
        \E assets \in Pages(catalogue) \ {<<>>}, next \in Cursors \cup {NoCursor} :
          /\ reqs < MaxPages
          /\ nft_list' = nft_list \o troubleshoot_rows(assets)
          /\ pages' = Append(pages, assets)
          /\ nextLog' = Append(nextLog, next)
          /\ cursor' = next
          /\ IF next = NoCursor
               THEN StoreAndReturn(nft_list', "no_cursor")
               ELSE UNCHANGED <<CACHE, trending_nfts, fetchEnd, pc>>
          /\ UNCHANGED exitAt

\* ---------------------------------------------------------------------
\* filter_by_traits, calculate_profitability and the selection
\* ---------------------------------------------------------------------
desired_traits == [Background |-> "Gold"]

\* all(item in traits.items() for item in desired_traits.items())
filter_by_traits(df, desired) ==
  SelectSeq(df, LAMBDA r : \A k \in DOMAIN desired :
                             k \in DOMAIN r.traits /\ r.traits[k] = desired[k])

\* pd.DataFrame([]) has no columns: df['traits'] and df['floor_price'] raise
\* KeyError.
NoColumns(df) == df = <<>>

score_Gross(r) ==
  LET fp == r.floor_price
      pp == IF fp = NoPrice THEN NoPrice ELSE fp * (100 + PROFIT_THRESHOLD)
  IN  [row |-> r, potential_profit |-> pp, profit_margin |-> pp]

\* One row of calculate_profitability; amounts in hundredths of the unit of
\* floor_price.  A missing floor price is NaN and stays NaN.
score(r) ==
  LET fp == r.floor_price
      pp == IF fp = NoPrice THEN NoPrice ELSE fp * (100 + PROFIT_THRESHOLD)
  IN  [row |-> r,
       potential_profit |-> pp,
       profit_margin |-> IF fp = NoPrice THEN NoPrice ELSE pp - fp * 100]

calculate_profitability(df) == [i \in 1 .. Len(df) |-> score(df[i])]

\* pandas keeps a floor_price column that holds nothing but None as a column
\* of Python objects; multiplying one of its elements by a float raises.
ObjectColumn(df) == df # <<>> /\ \A i \in 1 .. Len(df) : df[i].floor_price = NoPrice

\* profitable_nfts[profitable_nfts['profit_margin'] > 0]   (NaN > 0 is False)
profitable(df) ==
  SelectSeq(df, LAMBDA s : s.profit_margin # NoPrice /\ s.profit_margin > 0)

\* The rest of the cycle after fetch_trending_nfts returned, up to the call
\* of execute_buy; raises(df) says whether the pandas steps raise.
Select(candidates, raises) ==
  /\ pc = "select"
  /\ reqs' = 0 /\ pages' = <<>> /\ sentLog' = <<>> /\ nextLog' = <<>>
  /\ nft_list' = <<>>
  /\ UNCHANGED <<prog, catalogue, call, raisedIn, bought, CACHE, elapsed, params, cursor, trending_nfts, tx_hash,
                 relist_response, fetchEnd, sinceMiss, buyCalls, relistCalls,
                 balanceRead, sent, order>>
  /\ IF raises
       THEN Terminate("select") /\ UNCHANGED top_nft
       ELSE LET profitable_nfts == profitable(calculate_profitability(candidates))
            IN  /\ IF profitable_nfts = <<>>
                     THEN pc' = "cooldown" /\ UNCHANGED top_nft
                     ELSE pc' = "buy" /\ top_nft' = profitable_nfts[1]
                /\ UNCHANGED exitAt

\* testnet.py: an empty fetch gives a frame without columns, and
\* df['traits'] raises KeyError.
testnet_monitor_and_trade ==
  /\ prog = "testnet"
  /\ LET filtered_nfts ==
           IF trending_nfts = <<>> THEN <<>>
           ELSE filter_by_traits(trending_nfts, desired_traits)
     IN  Select(filtered_nfts,
                \/ trending_nfts = <<>>
                \/ ObjectColumn(trending_nfts) /\ filtered_nfts # <<>>)

\* troubleshoot.py: an empty frame skips the cycle; no trait filter.
troubleshoot_monitor_and_trade ==
  /\ prog = "troubleshoot"
  /\ Select(trending_nfts, ObjectColumn(trending_nfts))

\* ---------------------------------------------------------------------
\* execute_buy, with the test of its result in monitor_and_trade
\* ---------------------------------------------------------------------
\* Web3.toWei(price, 'ether') of a price held as its count of wei
toWei(price) == price

ExceedsLimit_NoFraction(price_in_wei, wallet_balance) ==
  price_in_wei > wallet_balance

\* price_in_wei > wallet_balance * SPENDING_LIMIT_PERCENTAGE
ExceedsLimit(price_in_wei, wallet_balance) ==
  price_in_wei * 100 > wallet_balance * SPENDING_LIMIT_PERCENTAGE

Transaction(wallet_balance, gas) ==
  [token_id |-> top_nft.row.token_id,
   value |-> toWei(top_nft.row.floor_price),
   balance |-> wallet_balance,
   gas |-> gas]

\* if tx_hash != "Exceeds spending limit": relist, else end of cycle
AfterBuy(result) ==
  /\ tx_hash' = result
  /\ pc' = IF result # "Exceeds spending limit" THEN "relist" ELSE "cooldown"
  /\ UNCHANGED exitAt

\* w3.eth.send_raw_transaction(signed_txn.rawTransaction) went through
Broadcast(wallet_balance, gas) ==
  /\ sent' = Transaction(wallet_balance, gas)
  /\ bought' = bought \cup {top_nft.row.token_id}

\* an exception leaves execute_buy at the given step
Raise(step) == raisedIn' = step

testnet_execute_buy ==
  /\ prog = "testnet" /\ pc = "buy"
  /\ buyCalls' = buyCalls + 1
  /\ UNCHANGED <<prog, catalogue, call, CACHE, elapsed, params, cursor, nft_list, trending_nfts,
                 top_nft, relist_response, reqs, pages, sentLog, nextLog,
                 fetchEnd, sinceMiss, relistCalls, order>>
  /\ \/ \* w3.eth.get_balance raises
        /\ Raise("get_balance")
        /\ Terminate("buy") /\ UNCHANGED <<tx_hash, sent, bought, balanceRead>>
     \/ \E wallet_balance \in Balances :
          /\ balanceRead' = wallet_balance
          /\ IF ExceedsLimit(toWei(top_nft.row.floor_price), wallet_balance)
               THEN AfterBuy("Exceeds spending limit") /\ UNCHANGED <<sent, bought, raisedIn>>
               ELSE \/ \* the nonce read, the signing or the broadcast raises
                       /\ Raise("send")
                       /\ Terminate("buy") /\ UNCHANGED <<tx_hash, sent, bought>>
                    \/ \* broadcast; the balance read for the log line raises
                       /\ Broadcast(wallet_balance, FIXED_GAS)
                       /\ Raise("log")
                       /\ Terminate("buy") /\ UNCHANGED tx_hash
                    \/ \* broadcast; return tx_hash.hex()
                       /\ Broadcast(wallet_balance, FIXED_GAS)
                       /\ AfterBuy("hash") /\ UNCHANGED raisedIn

troubleshoot_execute_buy ==
  /\ prog = "troubleshoot" /\ pc = "buy"
  /\ buyCalls' = buyCalls + 1
  /\ UNCHANGED <<prog, catalogue, call, CACHE, elapsed, params, cursor, nft_list, trending_nfts,
                 top_nft, relist_response, reqs, pages, sentLog, nextLog,
                 fetchEnd, sinceMiss, relistCalls, order>>
  /\ \/ \* w3.eth.get_balance raises: except Exception, return str(e)
        /\ Raise("get_balance")
        /\ AfterBuy("error") /\ UNCHANGED <<sent, bought, balanceRead>>
     \/ \E wallet_balance \in Balances :
          /\ balanceRead' = wallet_balance
          /\ IF ExceedsLimit(toWei(top_nft.row.floor_price), wallet_balance)
               THEN AfterBuy("Exceeds spending limit") /\ UNCHANGED <<sent, bought, raisedIn>>
               ELSE \/ \* the nonce read, w3.eth.estimateGas, the signing or the
                       \* broadcast raises: except Exception, return str(e)
                       /\ \E step \in {"estimateGas", "send"} : Raise(step)
                       /\ AfterBuy("error") /\ UNCHANGED <<sent, bought>>
                    \/ \E gas_estimate \in GasEstimates :
                         /\ Broadcast(wallet_balance, gas_estimate)
                         /\ \/ AfterBuy("hash") /\ UNCHANGED raisedIn
                            \/ \* the balance read for the log line raises
                               Raise("log") /\ AfterBuy("error")

\* ---------------------------------------------------------------------
\* relist_nft
\* ---------------------------------------------------------------------
sell_order_payload_AtCost ==
  [token_id |-> top_nft.row.token_id,
   token_address |-> top_nft.row.contract_address,
   start_amount |-> top_nft.row.floor_price * 100]

sell_order_payload ==
  [token_id |-> top_nft.row.token_id,
   token_address |-> top_nft.row.contract_address,
   start_amount |-> top_nft.potential_profit]

Relist ==
  /\ pc = "relist"
  /\ relistCalls' = relistCalls + 1
  /\ order' = sell_order_payload
  /\ UNCHANGED <<prog, catalogue, call, raisedIn, bought, CACHE, elapsed, params, cursor, nft_list, trending_nfts,
                 top_nft, tx_hash, reqs, pages, sentLog, nextLog, fetchEnd,
                 sinceMiss, buyCalls, balanceRead, sent>>

testnet_relist_nft ==
  /\ prog = "testnet" /\ Relist
  /\ \/ \* requests.post or response.json() raises
        Terminate("relist") /\ UNCHANGED relist_response
     \/ \E response \in {"json", "text"} :
          /\ relist_response' = response
          /\ pc' = "cooldown"
          /\ UNCHANGED exitAt

troubleshoot_relist_nft ==
  /\ prog = "troubleshoot" /\ Relist
  /\ \E response \in {"json", "text", "None"} :  \* None: except Exception, return
       relist_response' = response
  /\ pc' = "cooldown"
  /\ UNCHANGED exitAt

\* ---------------------------------------------------------------------
\* time.sleep(60) at the end of the cycle
\* ---------------------------------------------------------------------
sleep ==
  /\ pc = "cooldown"
  /\ pc' = "loop"
  /\ Pass(CYCLE_SLEEP)
  /\ CACHE' = [CACHE EXCEPT !.age = aged(@, CYCLE_SLEEP)]
  /\ trending_nfts' = <<>> /\ top_nft' = NoRow /\ tx_hash' = ""
  /\ relist_response' = "" /\ fetchEnd' = "none"
  /\ buyCalls' = 0 /\ relistCalls' = 0 /\ balanceRead' = Never
  /\ sent' = NoTx /\ order' = NoOrder /\ raisedIn' = "none"
  /\ UNCHANGED <<prog, catalogue, call, bought, params, cursor, nft_list, reqs, pages, sentLog, nextLog, exitAt>>

\* ---------------------------------------------------------------------
\* interrupts
\* ---------------------------------------------------------------------
Running == pc \notin {"crashed", "exit1", "stopped"}

Stop ==
  /\ Running
  /\ pc' = "stopped"
  /\ exitAt' = "interrupt"
  /\ UNCHANGED <<prog, catalogue, call, raisedIn, bought, CACHE, elapsed, params, cursor, nft_list, trending_nfts,
                 top_nft, tx_hash, relist_response, reqs, pages, sentLog,
                 nextLog, fetchEnd, sinceMiss, buyCalls, relistCalls, balanceRead, sent, order>>

\* testnet.py: except KeyboardInterrupt around the loop
KeyboardInterrupt == prog = "testnet" /\ Stop

\* troubleshoot.py: the SIGINT / SIGTERM handler calls sys.exit(0)
graceful_exit == prog = "troubleshoot" /\ Stop

Next ==
  \/ testnet_fetch_trending_nfts
  \/ testnet_page
  \/ testnet_monitor_and_trade
  \/ testnet_execute_buy
  \/ testnet_relist_nft
  \/ troubleshoot_fetch_trending_nfts
  \/ troubleshoot_page
  \/ troubleshoot_monitor_and_trade
  \/ troubleshoot_execute_buy
  \/ troubleshoot_relist_nft
  \/ sleep
  \/ KeyboardInterrupt
  \/ graceful_exit

Spec == Init /\ [][Next]_vars

\* ---------------------------------------------------------------------
\* A marketplace that never stops serving pages.  Past MaxPages requests
\* the cursor loop of troubleshoot.py runs on as before; the rows it
\* appends and the history of the fetch are no longer recorded, since
\* nothing in the loop reads them.
\* ---------------------------------------------------------------------
troubleshoot_page_on ==
  /\ prog = "troubleshoot" /\ pc = "fetching"
  /\ reqs = MaxPages
  /\ params' = WithCursor(params, cursor)
  /\ \E next \in Cursors : cursor' = next     \* 200, assets, data.get('next')
  /\ UNCHANGED <<prog, catalogue, call, raisedIn, bought, pc, CACHE, elapsed,
                 nft_list, trending_nfts, top_nft, tx_hash, relist_response,
                 reqs, pages, sentLog, nextLog, fetchEnd, sinceMiss, buyCalls,
                 relistCalls, balanceRead, sent, order, exitAt>>

NextUnbounded == Next \/ troubleshoot_page_on

\* The interpreter keeps executing the script: some step is always taken.
SpecUnbounded == Init /\ [][NextUnbounded]_vars /\ WF_vars(NextUnbounded)

\* ---------------------------------------------------------------------
\* filter_by_traits and calculate_profitability called once, on any frame
\* pd.DataFrame(nft_list) can be
\* ---------------------------------------------------------------------
TraitDicts ==
  {NoTraits, [Background |-> "Gold"], [Background |-> "Blue"],
   [Background |-> "Gold", Eyes |-> "Blue"]}

DesiredDicts ==
  {NoTraits, desired_traits, [Background |-> "Gold", Eyes |-> "Blue"]}

FrameRows ==
  [token_id : 1 .. 2, contract_address : {"0xA"},
   floor_price : {NoPrice} \cup (0 .. MaxPrice), traits : TraitDicts]

Frames == SeqsUpTo(FrameRows, MaxRows)

InitPure ==
  /\ prog = "testnet"
  /\ catalogue = {}
  /\ pc = "call"
  /\ call \in [fn : {"none"}, df : Frames, desired_traits : DesiredDicts,
               out : {<<>>}, raised : {FALSE}]
  /\ Idle

Returns(fn, raises, result) ==
  /\ pc = "call" /\ call.fn = "none"
  /\ call' = [call EXCEPT !.fn = fn, !.raised = raises,
                          !.out = IF raises THEN <<>> ELSE result]
  /\ UNCHANGED <<prog, catalogue, pc, CACHE, elapsed, params, cursor, nft_list,
                 trending_nfts, top_nft, tx_hash, relist_response, reqs, pages,
                 sentLog, nextLog, fetchEnd, sinceMiss, buyCalls, relistCalls,
                 balanceRead, sent, order, exitAt, raisedIn, bought>>

call_filter_by_traits ==
  Returns("filter_by_traits", NoColumns(call.df),
          filter_by_traits(call.df, call.desired_traits))

call_calculate_profitability ==
  Returns("calculate_profitability", NoColumns(call.df) \/ ObjectColumn(call.df),
          calculate_profitability(call.df))

NextPure ==
  \/ call_filter_by_traits
  \/ call_calculate_profitability

SpecPure == InitPure /\ [][NextPure]_vars

\* =====================================================================
\* Properties
\* =====================================================================
Ended == pc \in {"crashed", "exit1"}

\* The rows a sequence of pages yields, as the running script builds them.
RowsOf(ps) ==
  IF prog = "testnet" THEN testnet_rows(Flatten(ps))
  ELSE troubleshoot_rows(Flatten(ps))

\* C1: relist_nft is called in a cycle only if execute_buy of that cycle
\* returned a transaction hash; a buy that failed with an error goes to the
\* cooldown without a relist.
C1_RelistOnlyAfterHash ==
  /\ relistCalls > 0 => tx_hash = "hash"
  /\ tx_hash = "error" => relistCalls = 0

\* C2: the spending check uses the balance read inside execute_buy: a price
\* above balance x SPENDING_LIMIT_PERCENTAGE gives the spend-limit outcome
\* with nothing broadcast and no relist in the cycle, and every broadcast
\* transaction has value <= balance x SPENDING_LIMIT_PERCENTAGE.
C2_SpendCheckAtCallTime ==
  /\ sent # NoTx =>
       /\ sent.balance = balanceRead
       /\ sent.value * 100 <= balanceRead * SPENDING_LIMIT_PERCENTAGE
  /\ (balanceRead # Never /\
      top_nft.row.floor_price * 100 > balanceRead * SPENDING_LIMIT_PERCENTAGE) =>
       /\ tx_hash = "Exceeds spending limit"
       /\ sent = NoTx
       /\ relistCalls = 0
       /\ pc \in {"cooldown", "stopped"}
  /\ tx_hash = "Exceeds spending limit" =>
       /\ balanceRead # Never
       /\ top_nft.row.floor_price * 100 > balanceRead * SPENDING_LIMIT_PERCENTAGE

C2_Witness ==
  /\ pc = "cooldown"
  /\ tx_hash = "Exceeds spending limit"
  /\ balanceRead > 0
  /\ buyCalls = 1

\* C3: after a non-2xx status on the first page the fetch returns nothing
\* and the cycle reaches the cooldown: no buy, no relist, and the process
\* does not end.
C3_FirstPageFailureSkipsCycle ==
  (fetchEnd = "status" /\ trending_nfts = <<>>) =>
     buyCalls = 0 /\ relistCalls = 0 /\ ~Ended

\* C4: a page request that raises never ends the process.
C4_TransportErrorNotFatal == exitAt # "fetch"

\* C5: a failure inside execute_buy never ends the process.
C5_BuyFailureNotFatal == exitAt # "buy"

\* C6: a failure of relist_nft never ends the process.
C6_RelistFailureNotFatal == exitAt # "relist"

\* C7: fetch_trending_nfts returns the cached set, without a request, iff
\* an entry exists and is younger than the TTL; otherwise it goes to the
\* network, which happens at most once per TTL window, and stores what it
\* fetched under the time of the call.
C7_CacheFreshness ==
  [][ /\ (pc = "loop" /\ pc' # "stopped") =>
           /\ (fetchEnd' = "cache") <=> (CACHE.has /\ CACHE.age < CACHE_EXPIRATION)
           /\ fetchEnd' = "cache" =>
                /\ pc' = "select"
                /\ trending_nfts' = CACHE.trending_nfts
                /\ reqs' = 0
                /\ CACHE' = CACHE
           /\ fetchEnd' # "cache" =>
                /\ sinceMiss = Never \/ sinceMiss >= CACHE_EXPIRATION
                /\ sinceMiss' = 0
      /\ (pc = "fetching" /\ pc' = "select") =>
           /\ reqs' >= 1
           /\ CACHE'.has
           /\ CACHE'.trending_nfts = trending_nfts'
           /\ CACHE'.age = sinceMiss'
    ]_vars

C7_Witness ==
  /\ pc = "fetching"
  /\ CACHE.has
  /\ CACHE.age >= CACHE_EXPIRATION
  /\ sinceMiss = 0

\* C8: a fetch that a non-2xx status ended does not replace the cache entry.
C8_FailedFetchNotCached ==
  [][ (pc = "fetching" /\ fetchEnd' = "status") => CACHE' = CACHE ]_vars

\* C9: when a non-2xx status follows k good pages, no further page is
\* requested and the fetch returns the rows of those k pages, in order.
C9_PartialResultsReturned ==
  (pc = "select" /\ fetchEnd = "status") =>
     /\ reqs = Len(pages) + 1
     /\ \A i \in 1 .. Len(pages) : pages[i] # <<>>
     /\ trending_nfts = RowsOf(pages)

C9_Witness ==
  /\ pc = "select"
  /\ fetchEnd = "status"
  /\ Len(pages) = 2
  /\ Len(trending_nfts) >= 2
  /\ trending_nfts[1].token_id # trending_nfts[2].token_id

\* C10: over a chain of n non-empty pages whose last page carries no
\* cursor, the cursor fetch issues n requests, the first without a cursor
\* and request i+1 with the cursor page i returned, and returns the rows of
\* the n pages in page order.
C10_CursorPagination ==
  prog = "troubleshoot" =>
     /\ Len(sentLog) = reqs
     /\ reqs >= 1 => sentLog[1] = NoCursor
     /\ \A i \in 1 .. reqs - 1 :
          /\ i <= Len(nextLog)
          /\ nextLog[i] # NoCursor
          /\ sentLog[i + 1] = nextLog[i]
     /\ (pc = "select" /\ fetchEnd = "no_cursor") =>
          /\ reqs = Len(pages)
          /\ Len(nextLog) = reqs
          /\ nextLog[reqs] = NoCursor
          /\ \A i \in 1 .. reqs : pages[i] # <<>>
          /\ trending_nfts = RowsOf(pages)

C10_Witness ==
  /\ prog = "troubleshoot"
  /\ pc = "select"
  /\ fetchEnd = "no_cursor"
  /\ reqs = MaxPages
  /\ sentLog[2] = "a"
  /\ Len(trending_nfts) >= 2
  /\ trending_nfts[1].token_id # trending_nfts[2].token_id

\* The rows of the returned frame that qualify for purchase: after the
\* trait filter of testnet.py, a floor price with a positive margin.
Qualifies(r) ==
  /\ prog = "testnet" => ("Background" \in DOMAIN r.traits /\ r.traits.Background = "Gold")
  /\ r.floor_price # NoPrice
  /\ r.floor_price * PROFIT_THRESHOLD > 0

Qualifying == SelectSeq(trending_nfts, Qualifies)

\* The cycle is past the selection.
Selected == fetchEnd # "none" /\ pc # "select"

\* C11: a cycle calls execute_buy at most once, for the first row in
\* returned order that passes the trait filter and has profit_margin > 0;
\* when no row qualifies there is no buy and no relist and the cycle goes
\* to the cooldown.
C11_OneCandidatePerCycle ==
  /\ buyCalls <= 1
  /\ (pc = "buy" \/ buyCalls = 1) =>
       /\ Qualifying # <<>>
       /\ top_nft.row = Qualifying[1]
  /\ (Selected /\ Qualifying = <<>>) =>
       /\ buyCalls = 0
       /\ relistCalls = 0
       /\ pc \in {"cooldown", "stopped"}

\* C12: after execute_buy returned a transaction hash, relist_nft is called
\* once in the cycle, for the token and contract of the listing bought, at
\* floor_price x (1 + PROFIT_THRESHOLD) (in hundredths).
C12_RelistAtPotentialProfit ==
  /\ relistCalls <= 1
  /\ (tx_hash = "hash" /\ pc = "cooldown") => relistCalls = 1
  /\ (tx_hash = "hash" /\ relistCalls = 1) =>
       /\ order.token_id = sent.token_id
       /\ \E a \in catalogue :
            /\ a.token_id = order.token_id
            /\ a.contract_address = order.token_address
            /\ order.start_amount = a.current_price * (100 + PROFIT_THRESHOLD)
       /\ order.start_amount = sent.value * (100 + PROFIT_THRESHOLD)

C12_Witness ==
  /\ pc = "cooldown"
  /\ tx_hash = "hash"
  /\ relistCalls = 1
  /\ sent.value = 1
  /\ order.start_amount = 100 + PROFIT_THRESHOLD

\* C13: no row without a floor price appears in what
\* calculate_profitability returns.
C13_AbsentFloorExcluded ==
  call.fn = "calculate_profitability" =>
    \A i \in DOMAIN call.out : call.out[i].row.floor_price # NoPrice

C15_TraitFilter ==
  call.fn = "filter_by_traits" =>
    /\ ~call.raised
    /\ call.out = SelectSeq(call.df,
                    LAMBDA r : \A k \in DOMAIN call.desired_traits :
                                 /\ k \in DOMAIN r.traits
                                 /\ r.traits[k] = call.desired_traits[k])
    /\ call.desired_traits = NoTraits => call.out = call.df

\* C16: within one fetch, a page request that is followed by another is
\* separated from it by at least RATE_LIMIT_DELAY seconds.
C16_RateLimitBetweenPages ==
  [][(pc = "fetching" /\ pc' = "fetching") =>
        \/ elapsed' >= elapsed + RATE_LIMIT_DELAY
        \/ elapsed' = CACHE_EXPIRATION]_vars

\* C17: when w3.eth.estimateGas raises, the purchase is still broadcast,
\* with the fixed gas limit.
C17_GasEstimateFallback ==
  raisedIn = "estimateGas" => (sent # NoTx /\ sent.gas = FIXED_GAS)

\* C18: an interrupt ends the process only at the top of a loop iteration or
\* during the cooldown sleep, so a cycle in progress runs to its end.
C18_InterruptBetweenCycles ==
  [][(pc # "stopped" /\ pc' = "stopped") => pc \in {"loop", "cooldown"}]_vars

\* C19: execute_buy is never called for a listing whose purchase has already
\* been broadcast.
C19_NoSecondPurchase ==
  [][buyCalls' = buyCalls + 1 => top_nft.row.token_id \notin bought]_vars

\* C20: fetch_trending_nfts terminates: a fetch whose requests are all
\* answered leaves its page loop, whatever pages and cursors the
\* marketplace serves.
C20_FetchTerminates == (pc = "fetching") ~> (pc # "fetching")

====
